---- MODULE Spec2Model ----
(***************************************************************************)
(* portfolio-rebalancer: the allocation engine of src/src/portfolio.rs and *)
(* the order in which src/src/main.rs calls it.                            *)
(*                                                                         *)
(* Decimal values (rust_decimal::Decimal) are held as integers counting    *)
(* units of 10^-Scale.  Addition, subtraction and comparison are exact;    *)
(* a product or quotient that needs more than Scale fractional digits is   *)
(* rounded to the nearest unit, ties to even, as rust_decimal does at its  *)
(* 28th digit.  Division by zero panics.  The 96-bit mantissa is never     *)
(* exhausted by the inputs enumerated here.                                *)
(*                                                                         *)
(* u32 and i32 are held with IntBits bits in place of 32, so that both     *)
(* limits are met by the counts enumerated here.                           *)
(***************************************************************************)
EXTENDS Integers, Sequences, FiniteSets

\* ------------------------------------------------------------------ bounds
\* Fractional decimal digits kept by a Decimal (28 in rust_decimal).
Scale == 1
\* Width of the reporting integer (32 in the program).
IntBits == 7
\* Largest whole price and count of an enumerated input asset.
MaxPrice == 3
MaxCount == 2

VARIABLES
    pc,                  \* position in main
    input,               \* the record serde_json parsed from the file
    load_res,            \* result of load_portfolio_from_file
    original_portfolio,
    target_res,          \* result of rebalance / add_without_selling
    target_portfolio,
    actions,             \* result of get_actions
    original_alloc_data, \* result of get_display_data on the original
    target_alloc_data    \* result of get_display_data on the target

vars == <<pc, input, load_res, original_portfolio, target_res, target_portfolio,
          actions, original_alloc_data, target_alloc_data>>

\* ----------------------------------------------------------------- Decimal
RECURSIVE Pow(_, _)
Pow(b, n) == IF n = 0 THEN 1 ELSE b * Pow(b, n - 1)

\* The integer that stands for the decimal 1.
ONE == Pow(10, Scale)

\* The decimal with whole value n.
Dec(n) == n * ONE

\* The decimal of n tenths (33.3 is Tenths(333)).
Tenths(n) == n * (ONE \div 10)

Abs(x) == IF x < 0 THEN -x ELSE x

\* n / d for d > 0, rounded to the nearest integer, ties to even.
RoundDiv(n, d) ==
    LET a == Abs(n)
        q == a \div d
        r == a % d
        m == IF 2 * r > d \/ (2 * r = d /\ q % 2 = 1) THEN q + 1 ELSE q
    IN  IF n < 0 THEN -m ELSE m

\* Decimal * Decimal.
DMul(a, b) == RoundDiv(a * b, ONE)

\* Decimal / Decimal, for b # 0 (the callers test b = 0: it panics).
DDiv(a, b) == IF b < 0 THEN RoundDiv(-(a * ONE), -b) ELSE RoundDiv(a * ONE, b)

\* Decimal::trunc, as a whole number: the digits before the point.
Trunc(d) == IF d < 0 THEN -((-d) \div ONE) ELSE d \div ONE

\* dec!(100.0)
Hundred == Dec(100)

U32_MAX == Pow(2, IntBits) - 1
I32_MAX == Pow(2, IntBits - 1) - 1
I32_MIN == -Pow(2, IntBits - 1)

NoneInt == [some |-> FALSE, v |-> 0]
SomeInt(n) == [some |-> TRUE, v |-> n]

\* Decimal::to_u32: None for a negative value or one whose whole part is
\* past u32::MAX, else the whole part.
ToU32(d) == IF d < 0 \/ Trunc(d) > U32_MAX THEN NoneInt ELSE SomeInt(Trunc(d))

\* Decimal::to_i32: the whole part (truncated toward zero) when it is an i32.
ToI32(d) == IF Trunc(d) < I32_MIN \/ Trunc(d) > I32_MAX THEN NoneInt ELSE SomeInt(Trunc(d))

\* -------------------------------------------------------------- data model
CURRENCY == "USD"

Asset(n, p, c, al, v) == [name |-> n, price |-> p, count |-> c, alloc |-> al, value |-> v]

Portfolio(as, dns, v) == [assets |-> as, donotsell |-> dns, value |-> v]

NoPortfolio == Portfolio(<<>>, FALSE, 0)

\* Results: a value, a returned error (Err) or a panic that aborts the process.
Ok(p) == [tag |-> "Ok", kind |-> "", sum |-> 0, val |-> p]
Err(k, s, none) == [tag |-> "Err", kind |-> k, sum |-> s, val |-> none]
Panic(k, none) == [tag |-> "Panic", kind |-> k, sum |-> 0, val |-> none]
NotCalled(none) == [tag |-> "NotCalled", kind |-> "", sum |-> 0, val |-> none]

\* The value fields of the assets, summed in order.
RECURSIVE SumValues(_)
SumValues(as) == IF as = <<>> THEN 0 ELSE as[1].value + SumValues(Tail(as))

\* --------------------------------------------------------------- Portfolio
RECURSIVE AllocSumFrom(_, _)
AllocSumFrom(as, sum) ==
    IF as = <<>> THEN sum ELSE AllocSumFrom(Tail(as), sum + as[1].alloc)

GetAllocationSum(self) == AllocSumFrom(self.assets, 0)

\* A sanity check with a tolerance of half a percent in place of equality.
IsTargetAllocationSaneApprox(self) ==
    Abs(GetAllocationSum(self) - Hundred) < Tenths(5)

IsTargetAllocationSane(self) == GetAllocationSum(self) = Hundred

RECURSIVE FirstNamed(_, _)
FirstNamed(as, n) ==
    IF as = <<>> THEN [some |-> FALSE, asset |-> Asset("", 0, 0, 0, 0)]
    ELSE IF as[1].name = n THEN [some |-> TRUE, asset |-> as[1]]
    ELSE FirstNamed(Tail(as), n)

\* A lookup that gives up after the first asset.
GetCurrencyFirstOnly(self) == FirstNamed(SubSeq(self.assets, 1, 1), CURRENCY)

\* get_currency: a clone of the first asset named USD, if any.
GetCurrency(self) == FirstNamed(self.assets, CURRENCY)

\* A check that accepts every portfolio.
HasCurrencyAlways(self) == TRUE

HasCurrency(self) == GetCurrency(self).some

\* The loop of calculate_asset_values: each asset's value is set and added to
\* the portfolio's.
RECURSIVE CalcValuesFrom(_, _, _)
CalcValuesFrom(todo, done, value) ==
    IF todo = <<>> THEN [assets |-> done, value |-> value]
    ELSE LET a == todo[1]
             v == DMul(a.price, a.count)
         IN  CalcValuesFrom(Tail(todo), Append(done, [a EXCEPT !.value = v]), value + v)

CalculateAssetValues(self) ==
    LET r == CalcValuesFrom(self.assets, <<>>, self.value)
    IN  [self EXCEPT !.assets = r.assets, !.value = r.value]

\* ------------------------------------------------------------------ loader
\* load_portfolio_from_file on a record that parsed: the allocation check,
\* then the currency check, then calculate_asset_values.
LoadPortfolioFromFile(parsed) ==
    IF ~IsTargetAllocationSane(parsed)
    THEN Err("InvalidAllocation", GetAllocationSum(parsed), NoPortfolio)
    ELSE IF ~HasCurrency(parsed)
    THEN Err("MissingCurrency", 0, NoPortfolio)
    ELSE Ok(CalculateAssetValues(parsed))

\* ------------------------------------------------------------------ engine
\* recalc_allocation: alloc = (value / self.value) * 100 for each asset; the
\* division panics when the portfolio's value is zero.
RecalcAllocation(self) ==
    IF self.assets # <<>> /\ self.value = 0
    THEN Panic("DivisionByZero", NoPortfolio)
    ELSE Ok([self EXCEPT !.assets =
                [i \in 1..Len(self.assets) |->
                    [self.assets[i] EXCEPT
                        !.alloc = DMul(DDiv(self.assets[i].value, self.value), Hundred)]]])

\* (pool * alloc / 100) / price, the count that the share alloc of pool buys.
Share(pool, a) == DDiv(DDiv(DMul(pool, a.alloc), Hundred), a.price)

\* rebalance, first loop: each asset's count and value from its allocation.
TargetAsset(total, a) ==
    LET c == Share(total, a)
    IN  [a EXCEPT !.count = c, !.value = DMul(a.price, c)]

\* rebalance, "add leftover to currency": the first asset named USD gets the
\* leftover as its count, its value is recomputed and added to the total.
RECURSIVE AbsorbFrom(_, _, _, _)
AbsorbFrom(todo, done, leftover, total) ==
    IF todo = <<>> THEN [assets |-> done, value |-> total]
    ELSE IF todo[1].name = CURRENCY
    THEN LET v == DMul(todo[1].price, leftover)
         IN  [assets |-> done \o <<[todo[1] EXCEPT !.count = leftover, !.value = v]>>
                              \o Tail(todo),
              value |-> total + v]
    ELSE AbsorbFrom(Tail(todo), Append(done, todo[1]), leftover, total)

Rebalance(self) ==
    IF \E i \in 1..Len(self.assets) : self.assets[i].price = 0
    THEN Panic("DivisionByZero", NoPortfolio)
    ELSE LET as1 == [i \in 1..Len(self.assets) |-> TargetAsset(self.value, self.assets[i])]
             sum == SumValues(as1)
             r == IF self.value > sum
                  THEN AbsorbFrom(as1, <<>>, self.value - sum, sum)
                  ELSE [assets |-> as1, value |-> sum]
         IN  RecalcAllocation([self EXCEPT !.assets = r.assets, !.value = r.value])

\* A top-up that leaves the currency asset as it is.
TopUpAssetKeepCurrency(a, currency) ==
    LET c == a.count + Share(currency.value, a)
    IN  [a EXCEPT !.count = c, !.value = DMul(a.price, c)]

\* add_without_selling, loop body: the asset's count grows by its share of the
\* currency's value; the currency asset itself is zeroed.
TopUpAsset(a, currency) ==
    LET c == a.count + Share(currency.value, a)
    IN  IF a.name = CURRENCY
        THEN [a EXCEPT !.count = 0, !.value = 0]
        ELSE [a EXCEPT !.count = c, !.value = DMul(a.price, c)]

AddWithoutSelling(self) ==
    LET cur == GetCurrency(self)
    IN  IF ~cur.some THEN Err("MissingCurrency", 0, NoPortfolio)
        ELSE IF \E i \in 1..Len(self.assets) : self.assets[i].price = 0
        THEN Panic("DivisionByZero", NoPortfolio)
        ELSE LET as1 == [i \in 1..Len(self.assets) |-> TopUpAsset(self.assets[i], cur.asset)]
             IN  RecalcAllocation([self EXCEPT !.assets = as1, !.value = SumValues(as1)])

Action(bs, n, nm, tv) ==
    [buysell |-> bs, amount |-> n, name |-> nm, transaction_value |-> tv]

\* A loop body that reports Sell for a rise and Buy for a fall.
ActionForSwapped(a, b, overflow_checks) ==
    LET diff == b.count - a.count
        tv == Abs(DMul(diff, a.price))
    IN  IF diff = 0 THEN Ok(<<>>)
        ELSE Ok(<<Action(IF diff > 0 THEN "Sell" ELSE "Buy", Abs(Trunc(diff)), a.name, tv)>>)

\* get_actions, loop body after the assertion: no action, one action, an error
\* or a panic for the pair (a, b).  Negating i32::MIN panics in a build with
\* overflow checks and wraps in one without, where u32::try_from then fails.
ActionFor(a, b, overflow_checks) ==
    LET diff == b.count - a.count
        tv == Abs(DMul(diff, a.price))
    IN  IF diff = 0 THEN Ok(<<>>)
        ELSE IF diff > 0
        THEN LET n == ToU32(diff)
             IN  IF n.some THEN Ok(<<Action("Buy", n.v, a.name, tv)>>)
                 ELSE Err("CannotFormat", 0, <<>>)
        ELSE LET n == ToI32(diff)
             IN  IF ~n.some THEN Err("CannotFormat", 0, <<>>)
                 ELSE IF n.v = I32_MIN
                 THEN IF overflow_checks THEN Panic("NegOverflow", <<>>)
                      ELSE Err("TryFromInt", 0, <<>>)
                 ELSE Ok(<<Action("Sell", -n.v, a.name, tv)>>)

RECURSIVE GetActionsFrom(_, _, _, _, _)
GetActionsFrom(i, self, target, ret, overflow_checks) ==
    IF i > Len(self.assets) THEN Ok(ret)
    ELSE IF i > Len(target.assets) THEN Panic("IndexOutOfBounds", <<>>)
    ELSE IF self.assets[i].name # target.assets[i].name THEN Panic("AssertName", <<>>)
    ELSE LET r == ActionFor(self.assets[i], target.assets[i], overflow_checks)
         IN  IF r.tag = "Ok"
             THEN GetActionsFrom(i + 1, self, target, ret \o r.val, overflow_checks)
             ELSE r

GetActions(self, target, overflow_checks) ==
    GetActionsFrom(1, self, target, <<>>, overflow_checks)

RECURSIVE DisplayFrom(_, _)
DisplayFrom(todo, data) ==
    IF todo = <<>> THEN Ok(data)
    ELSE LET n == ToU32(todo[1].alloc)
         IN  IF n.some THEN DisplayFrom(Tail(todo), Append(data, <<todo[1].name, n.v>>))
             ELSE Err("CannotFormat", 0, <<>>)

\* get_display_data: the data, and the portfolio as recalc_allocation left it.
GetDisplayData(self) ==
    LET r == RecalcAllocation(self)
    IN  IF r.tag = "Panic" THEN [data |-> Panic(r.kind, <<>>), self |-> self]
        ELSE [data |-> DisplayFrom(r.val.assets, <<>>), self |-> r.val]

\* ------------------------------------------------------------------ inputs
Names == {"USD", "STK"}
\* Every naming of one or two assets (none, one or two of them USD), and one
\* of three.
NameSeqs == UNION {[1..n -> Names] : n \in 1..2} \cup {<<"STK", "USD", "BND">>}
Prices == {Dec(n) : n \in 0..MaxPrice}
Counts == {Dec(n) : n \in 0..MaxCount}
AllocTenths == {0, 333, 499, 500, 667, 1000, 1001}

RECURSIVE SeqSum(_)
SeqSum(s) == IF s = <<>> THEN 0 ELSE s[1] + SeqSum(Tail(s))

\* Allocation vectors of n assets that sum to 100 or miss it by a tenth.
AllocSeqs(n) ==
    {v \in [1..n -> {Tenths(t) : t \in AllocTenths}] :
        Abs(SeqSum(v) - Hundred) <= Tenths(1) }

\* A parsed record: value fields are skipped by serde and start at zero.
Parsed(ns, ps, cs, als, dns) ==
    Portfolio([i \in 1..Len(ns) |-> Asset(ns[i], ps[i], cs[i], als[i], 0)], dns, 0)

\* input is one of the records the file can hold.
IsInput(rec) ==
    \E ns \in NameSeqs :
        \E ps \in [1..Len(ns) -> Prices], cs \in [1..Len(ns) -> Counts],
           als \in AllocSeqs(Len(ns)), dns \in BOOLEAN :
            rec = Parsed(ns, ps, cs, als, dns)

\* ----------------------------------------------------------------- actions
Init ==
    /\ pc = "start"
    /\ IsInput(input)
    /\ load_res = NotCalled(NoPortfolio)
    /\ original_portfolio = NoPortfolio
    /\ target_res = NotCalled(NoPortfolio)
    /\ target_portfolio = NoPortfolio
    /\ actions = NotCalled(<<>>)
    /\ original_alloc_data = NotCalled(<<>>)
    /\ target_alloc_data = NotCalled(<<>>)

\* main: load_portfolio_from_file(portfolio_file)
Load ==
    /\ pc = "start"
    /\ load_res' = LoadPortfolioFromFile(input)
    /\ original_portfolio' = load_res'.val
    /\ pc' = IF load_res'.tag = "Ok" THEN "loaded" ELSE "failed"
    /\ UNCHANGED <<input, target_res, target_portfolio, actions,
                   original_alloc_data, target_alloc_data>>

\* What main does with a result: go on, report the error, or abort.
After(res, next) ==
    IF res.tag = "Ok" THEN next ELSE IF res.tag = "Err" THEN "failed" ELSE "aborted"

\* main: original_portfolio.rebalance()
DoRebalance ==
    /\ pc = "loaded"
    /\ ~original_portfolio.donotsell
    /\ target_res' = Rebalance(original_portfolio)
    /\ target_portfolio' = target_res'.val
    /\ pc' = After(target_res', "derived")
    /\ UNCHANGED <<input, load_res, original_portfolio, actions,
                   original_alloc_data, target_alloc_data>>

\* main: original_portfolio.add_without_selling()
DoAddWithoutSelling ==
    /\ pc = "loaded"
    /\ original_portfolio.donotsell
    /\ target_res' = AddWithoutSelling(original_portfolio)
    /\ target_portfolio' = target_res'.val
    /\ pc' = After(target_res', "derived")
    /\ UNCHANGED <<input, load_res, original_portfolio, actions,
                   original_alloc_data, target_alloc_data>>

\* main: original_portfolio.get_actions(&target_portfolio)
DoGetActions ==
    /\ pc = "derived"
    /\ \E overflow_checks \in BOOLEAN :
          actions' = GetActions(original_portfolio, target_portfolio, overflow_checks)
    /\ pc' = After(actions', "diffed")
    /\ UNCHANGED <<input, load_res, original_portfolio, target_res, target_portfolio,
                   original_alloc_data, target_alloc_data>>

\* main: original_portfolio.get_display_data()
DisplayOriginal ==
    /\ pc = "diffed"
    /\ original_alloc_data' = GetDisplayData(original_portfolio).data
    /\ original_portfolio' = GetDisplayData(original_portfolio).self
    /\ pc' = After(original_alloc_data', "shown")
    /\ UNCHANGED <<input, load_res, target_res, target_portfolio, actions,
                   target_alloc_data>>

\* main: target_portfolio.get_display_data()
DisplayTarget ==
    /\ pc = "shown"
    /\ target_alloc_data' = GetDisplayData(target_portfolio).data
    /\ target_portfolio' = GetDisplayData(target_portfolio).self
    /\ pc' = After(target_alloc_data', "done")
    /\ UNCHANGED <<input, load_res, original_portfolio, target_res, actions,
                   original_alloc_data>>

Next ==
    \/ Load
    \/ DoRebalance
    \/ DoAddWithoutSelling
    \/ DoGetActions
    \/ DisplayOriginal
    \/ DisplayTarget

Spec == Init /\ [][Next]_vars

\* ------------------------------------------------- the engine called directly
\* Portfolio's fields are public: a caller can hand add_without_selling and
\* get_actions any portfolios, validated by the loader or not.
WideCounts ==
    {0, ONE \div 2, Dec(1), Dec(I32_MAX), Dec(I32_MAX + 1), Dec(U32_MAX), Dec(U32_MAX + 1)}

\* A portfolio with the given names and counts, every asset at price p.
Holding(ns, cs, p) ==
    CalculateAssetValues(
        Portfolio([i \in 1..Len(ns) |-> Asset(ns[i], p, cs[i], 0, 0)], FALSE, 0))

InitEngine ==
    /\ input = NoPortfolio
    /\ load_res = NotCalled(NoPortfolio)
    /\ target_res = NotCalled(NoPortfolio)
    /\ actions = NotCalled(<<>>)
    /\ original_alloc_data = NotCalled(<<>>)
    /\ target_alloc_data = NotCalled(<<>>)
    /\ \/ /\ pc = "loaded"
          /\ \E ns \in NameSeqs :
                \E ps \in [1..Len(ns) -> Prices], cs \in [1..Len(ns) -> Counts],
                   als \in AllocSeqs(Len(ns)) :
                    original_portfolio = CalculateAssetValues(Parsed(ns, ps, cs, als, TRUE))
          /\ target_portfolio = NoPortfolio
       \/ /\ pc = "derived"
          /\ \E ns \in NameSeqs, nt \in NameSeqs, p \in {Dec(1), Dec(2)} :
                \E cs \in [1..Len(ns) -> WideCounts], ct \in [1..Len(nt) -> WideCounts] :
                    /\ original_portfolio = Holding(ns, cs, p)
                    /\ target_portfolio = Holding(nt, ct, p)

NextEngine ==
    \/ DoAddWithoutSelling
    \/ DoGetActions

SpecEngine == InitEngine /\ [][NextEngine]_vars
\* ------------------------------------------------------------------ claims
\* Indices of the assets named USD.
CurrencyIndices(as) == {i \in 1..Len(as) : as[i].name = CURRENCY}

\* The alloc fields of the parsed record, summed.
InputAllocSum == SeqSum([i \in 1..Len(input.assets) |-> input.assets[i].alloc])

Loaded == load_res.tag = "Ok"
Rebalanced == Loaded /\ ~load_res.val.donotsell /\ target_res.tag = "Ok"
ToppedUp == original_portfolio.donotsell /\ target_res.tag = "Ok"

\* The portfolio the loader returned (get_display_data later rewrites the
\* alloc fields of original_portfolio; load_res keeps the returned value).
LoadedPortfolio == load_res.val

\* rebalance's allocation-derived count of asset i, before any leftover.
AllocCount(i) ==
    DDiv(DDiv(DMul(LoadedPortfolio.value, LoadedPortfolio.assets[i].alloc), Hundred),
         LoadedPortfolio.assets[i].price)

\* Sum of the per-asset target values price * AllocCount.
AllocValueSum ==
    SeqSum([i \in 1..Len(LoadedPortfolio.assets) |->
               DMul(LoadedPortfolio.assets[i].price, AllocCount(i))])

Leftover == LoadedPortfolio.value - AllocValueSum

\* C1: the loader returns a portfolio only when the allocs of the parsed
\* record sum to exactly 100; for any other sum it returns the allocation
\* error carrying that sum, and no portfolio.
C1_LoadRequiresExactAllocSum ==
    load_res.tag # "NotCalled" =>
        /\ Loaded => InputAllocSum = Dec(100)
        /\ InputAllocSum # Dec(100) =>
              /\ load_res.tag = "Err"
              /\ load_res.kind = "InvalidAllocation"
              /\ load_res.sum = InputAllocSum
              /\ original_portfolio = NoPortfolio

\* C1 witness: a record whose allocs sum to 99.9 was rejected with that sum.
C1_Witness ==
    /\ load_res.tag = "Err"
    /\ load_res.kind = "InvalidAllocation"
    /\ load_res.sum = Tenths(999)

\* C2 as stated: every loaded portfolio has exactly one asset named USD, and a
\* record with none or with several is rejected (with the missing-currency
\* error when its allocs sum to 100).
C2_ExactlyOneCurrency ==
    load_res.tag # "NotCalled" =>
        /\ Loaded => Cardinality(CurrencyIndices(LoadedPortfolio.assets)) = 1
        /\ Cardinality(CurrencyIndices(input.assets)) # 1 =>
              /\ load_res.tag = "Err"
              /\ InputAllocSum = Dec(100) => load_res.kind = "MissingCurrency"

\* C2 amended: every loaded portfolio has at least one asset named USD; a
\* record with none is rejected (with the missing-currency error when its
\* allocs sum to 100), and a record with several whose allocs sum to 100 is
\* loaded.
C2_AtLeastOneCurrency ==
    load_res.tag # "NotCalled" =>
        /\ Loaded => CurrencyIndices(LoadedPortfolio.assets) # {}
        /\ CurrencyIndices(input.assets) = {} =>
              /\ load_res.tag = "Err"
              /\ InputAllocSum = Dec(100) => load_res.kind = "MissingCurrency"
        /\ (Cardinality(CurrencyIndices(input.assets)) >= 2 /\ InputAllocSum = Dec(100))
              => Loaded

\* C2 witness: a record with two assets named USD was loaded.
C2_Witness ==
    Loaded /\ Cardinality(CurrencyIndices(LoadedPortfolio.assets)) = 2

\* C3 as stated: whenever the leftover is non-negative, the value of the
\* portfolio rebalance returns equals the original's value.
C3_RebalanceConservesValue ==
    (Rebalanced /\ Leftover >= 0) => target_res.val.value = LoadedPortfolio.value

\* C4: add_without_selling returns a portfolio in which no asset other than
\* USD has a smaller count than in the original, and every asset named USD
\* has count 0 and value 0.
C4_TopUpNeverSells ==
    (Loaded /\ ToppedUp) =>
        \A i \in 1..Len(LoadedPortfolio.assets) :
            IF LoadedPortfolio.assets[i].name = CURRENCY
            THEN target_res.val.assets[i].count = 0 /\ target_res.val.assets[i].value = 0
            ELSE target_res.val.assets[i].count >= LoadedPortfolio.assets[i].count

\* C4 witness: a top-up that raised a non-currency count and zeroed a
\* currency asset that held a positive count.
C4_Witness ==
    /\ Loaded /\ ToppedUp
    /\ \E i, j \in 1..Len(LoadedPortfolio.assets) :
          /\ LoadedPortfolio.assets[i].name # CURRENCY
          /\ target_res.val.assets[i].count > LoadedPortfolio.assets[i].count
          /\ LoadedPortfolio.assets[j].name = CURRENCY
          /\ LoadedPortfolio.assets[j].count > 0
          /\ target_res.val.assets[j].count = 0

\* C5 as stated: add_without_selling returns a target only when the original
\* has an asset named USD whose value is positive.
C5_TopUpNeedsPositiveCurrency ==
    (pc # "loaded" /\ target_res.tag = "Ok") =>
        \E i \in CurrencyIndices(original_portfolio.assets) :
            original_portfolio.assets[i].value > 0

\* C5 amended: add_without_selling returns its error, and no target, exactly
\* when the original has no asset named USD; the value of that asset is not
\* examined.
C5_TopUpNeedsCurrency ==
    target_res.tag # "NotCalled" =>
        /\ target_res.tag = "Err" <=> CurrencyIndices(original_portfolio.assets) = {}
        /\ target_res.tag = "Err" => target_portfolio = NoPortfolio

\* C5 witness: a target was returned for an original whose USD assets all
\* have value zero.
C5_Witness ==
    /\ target_res.tag = "Ok"
    /\ CurrencyIndices(original_portfolio.assets) # {}
    /\ \A i \in CurrencyIndices(original_portfolio.assets) :
          original_portfolio.assets[i].value = 0

\* The portfolios get_actions was given agree in length and, by index, in name.
Aligned ==
    /\ Len(original_portfolio.assets) = Len(target_portfolio.assets)
    /\ \A i \in 1..Len(original_portfolio.assets) :
          original_portfolio.assets[i].name = target_portfolio.assets[i].name

\* count of asset i in the target minus its count in the original.
Diff(i) == target_portfolio.assets[i].count - original_portfolio.assets[i].count

\* Indices whose counts differ.
Changed == {i \in 1..Len(original_portfolio.assets) : Diff(i) # 0}

\* C6: a successful get_actions on aligned portfolios returns one action per
\* index whose counts differ, in index order, named after the asset, Buy for
\* a rise and Sell for a fall; for equal portfolios the list is empty.
C6_ActionsFollowAssetOrder ==
    (actions.tag = "Ok" /\ Aligned) =>
        /\ Len(actions.val) = Cardinality(Changed)
        /\ \A i \in Changed :
              LET k == Cardinality({j \in Changed : j <= i})
              IN  /\ actions.val[k].name = original_portfolio.assets[i].name
                  /\ actions.val[k].buysell = IF Diff(i) > 0 THEN "Buy" ELSE "Sell"
        /\ original_portfolio.assets = target_portfolio.assets => actions.val = <<>>

\* C6 witness: two assets, the first sold and the second bought.
C6_Witness ==
    /\ actions.tag = "Ok" /\ Aligned
    /\ Len(original_portfolio.assets) = 2
    /\ Diff(1) < 0 /\ Diff(2) > 0
    /\ Len(actions.val) = 2

\* C7 as stated: get_actions fails exactly when the whole part of some |diff|
\* exceeds u32::MAX, the same for a Sell as for a Buy; otherwise every amount
\* is the whole part of |diff|.
C7_SameRangeBothDirections ==
    (actions.tag # "NotCalled" /\ Aligned) =>
        IF \E i \in Changed : Abs(Trunc(Diff(i))) > U32_MAX
        THEN actions.tag = "Err"
        ELSE /\ actions.tag = "Ok"
             /\ Len(actions.val) = Cardinality(Changed)
             /\ \A i \in Changed :
                   actions.val[Cardinality({j \in Changed : j <= i})].amount
                       = Abs(Trunc(Diff(i)))

\* First index of an asset named USD in the loaded portfolio (0: none).
FirstCurrency ==
    IF CurrencyIndices(LoadedPortfolio.assets) = {} THEN 0
    ELSE CHOOSE i \in CurrencyIndices(LoadedPortfolio.assets) :
            \A j \in CurrencyIndices(LoadedPortfolio.assets) : i <= j

\* C8 as stated: when the target values sum to less than the original's
\* value, the first USD asset ends with its allocation-derived count plus the
\* leftover and every other asset with its allocation-derived count.
C8_LeftoverAddedToCurrency ==
    (Rebalanced /\ Leftover > 0) =>
        \A i \in 1..Len(LoadedPortfolio.assets) :
            target_res.val.assets[i].count =
                AllocCount(i) + (IF i = FirstCurrency THEN Leftover ELSE 0)

\* Each asset's value is price * count and the portfolio's value is their sum.
ValuesConsistent(p) ==
    /\ \A i \in 1..Len(p.assets) :
          p.assets[i].value = DMul(p.assets[i].price, p.assets[i].count)
    /\ p.value = SeqSum([i \in 1..Len(p.assets) |-> p.assets[i].value])

\* C9 as stated: the portfolios returned by the loader, rebalance and
\* add_without_selling have consistent values.
C9_ValuesConsistent ==
    /\ Loaded => ValuesConsistent(LoadedPortfolio)
    /\ target_res.tag = "Ok" => ValuesConsistent(target_res.val)

\* C10 as stated: no operation on a loaded portfolio aborts the process.
C10_NoAbort ==
    /\ pc # "aborted"
    /\ target_res.tag # "Panic"
    /\ actions.tag # "Panic"
    /\ original_alloc_data.tag # "Panic"
    /\ target_alloc_data.tag # "Panic"
====
